---- MODULE Spec2Model ----
(***************************************************************************)
(* The critique route handler of src/app/api/critique/route.ts: POST, with *)
(* its guards, the request validator, the timeout timer, the outbound      *)
(* chat-completion call and the classification of the outcome; its prompt *)
(* builder; and the sample page of src/app/samples/[id]/page.tsx, with its *)
(* sample fetch and its critique request.                                  *)
(*                                                                         *)
(* JavaScript runs a handler to its next await without interruption, so    *)
(* the timer callback and the model client act only while an invocation    *)
(* is suspended in `await client.chat.completions.create(...)`.            *)
(***************************************************************************)
EXTENDS Integers, Sequences, FiniteSets, TLC

\* ------------------------------------------------------------------ bounds

\* longest string given to a field of the request body
MaxStrLen == 1
\* longest value of the environment variable CRITIQUE_TIMEOUT_MS
MaxEnvLen == 1

\* most white space put before or after the text of prd and buggy_solution_code
MaxPad == 1
MaxTextLen == 5
MaxSamples == 2

\* the invocation slots of the handler
Procs == {1, 2}

\* ------------------------------------------------------- strings and values

\* all sequences over S of length at most n
RECURSIVE SeqsUpTo(_, _)
SeqsUpTo(S, n) ==
  IF n = 0 THEN {<<>>}
  ELSE LET shorter == SeqsUpTo(S, n - 1)
       IN  shorter \cup {Append(s, c) : s \in {t \in shorter : Len(t) = n - 1}, c \in S}

\* String.prototype.includes: sub occurs in s as a contiguous run
Includes(s, sub) ==
  \E k \in 0..(Len(s) - Len(sub)) :
    \A j \in 1..Len(sub) : s[k + j] = sub[j]

\* an environment variable: unset (undefined) or a string
Unset == [set |-> FALSE, val |-> <<>>]
EnvStr(s) == [set |-> TRUE, val |-> s]

\* JavaScript truthiness of string | undefined
Truthy(e) == e.set /\ e.val # <<>>

\* a JavaScript number: NaN or a natural
NaN == [nan |-> TRUE, n |-> 0]
Num(n) == [nan |-> FALSE, n |-> n]

Digits == {"0", "1"}
DigitVal(c) == IF c = "1" THEN 1 ELSE 0
IsSpace(c) == c = " "

RECURSIVE TrimStart(_)
TrimStart(s) ==
  IF s # <<>> /\ IsSpace(Head(s)) THEN TrimStart(Tail(s)) ELSE s

RECURSIVE TrimEnd(_)
TrimEnd(s) ==
  IF s # <<>> /\ IsSpace(s[Len(s)]) THEN TrimEnd(SubSeq(s, 1, Len(s) - 1)) ELSE s

Trim(s) == TrimEnd(TrimStart(s))

RECURSIVE DecimalValue(_)
DecimalValue(s) ==
  IF s = <<>> THEN 0
  ELSE 10 * DecimalValue(SubSeq(s, 1, Len(s) - 1)) + DigitVal(s[Len(s)])

\* Number(string): white space is trimmed, the empty string is 0, a run of
\* decimal digits is its value, anything else is NaN
StringToNumber(s) ==
  LET t == Trim(s)
  IN  IF t = <<>> THEN Num(0)
      ELSE IF \A k \in 1..Len(t) : t[k] \in Digits THEN Num(DecimalValue(t))
      ELSE NaN

\* a JSON value of a body field, as far as the schema looks at it
Absent == [type |-> "undefined", len |-> 0]
JNumber == [type |-> "number", len |-> 0]
JString(n) == [type |-> "string", len |-> n]
JNull == [type |-> "null", len |-> 0]
JObject == [type |-> "object", len |-> 0]

\* ------------------------------------------------------------- the request

\* content-type headers: absent, or a string cut into the pieces that
\* `includes("application/json")` can tell apart
JsonType == <<"application/json">>
ContentTypes ==
  { Unset, EnvStr(<<"text/plain">>), EnvStr(JsonType),
    EnvStr(<<"application/json", "; charset=utf-8">>) }

\* values given to a required field and to an optional string field
ReqVals == {Absent, JNumber} \cup {JString(n) : n \in 0..MaxStrLen}
OptVals == {Absent, JNumber, JString(1)}
\* the shapes a field may have: absent, null, and JSON values
AnyVals == {Absent, JNull, JNumber, JString(1), JObject}

\* what `await req.json()` yields: a JSON object, a JSON value that is no
\* object, or an exception (a syntax error of the body, an aborted read)
NoFields ==
  [id |-> Absent, prd |-> Absent, buggy_solution_code |-> Absent,
   label |-> Absent, qwq_critique |-> Absent, failure_info |-> Absent,
   meta |-> Absent]
ObjectBodies ==
  [kind : {"object"}, err : {"none"}, id : ReqVals, prd : ReqVals,
   buggy_solution_code : ReqVals, label : OptVals, qwq_critique : OptVals,
   failure_info : {Absent}, meta : {Absent}]
\* payloads with valid required fields and optional fields of every shape
ShapedBodies ==
  [kind : {"object"}, err : {"none"}, id : {JString(1)}, prd : {JString(1)},
   buggy_solution_code : {JString(1)}, label : AnyVals, qwq_critique : OptVals,
   failure_info : AnyVals, meta : AnyVals]
OtherBody == [kind |-> "other", err |-> "none"] @@ NoFields
ThrowingBody(name) == [kind |-> "throws", err |-> name] @@ NoFields
BodyErrNames == {"SyntaxError", "AbortError"}
Bodies == ObjectBodies \cup {OtherBody} \cup {ThrowingBody(n) : n \in BodyErrNames}

\* process.env
TokenVals == {Unset, EnvStr(<<>>), EnvStr(<<"t">>)}
EnvChars == {"0", "1", " ", "a"}
TimeoutVals == {Unset} \cup {EnvStr(s) : s \in SeqsUpTo(EnvChars, MaxEnvLen)}

\* ----------------------------------------------------------- the validator

Issue(path, code) == [path |-> path, code |-> code]

\* z.string().min(1)
StringMin1(path, v) ==
  IF v.type # "string" THEN {Issue(path, "invalid_type")}
  ELSE IF v.len < 1 THEN {Issue(path, "too_small")}
  ELSE {}

\* z.string().optional()
OptionalString(path, v) ==
  IF v.type = "undefined" \/ v.type = "string" THEN {}
  ELSE {Issue(path, "invalid_type")}

\* z.any().optional()
AnyOptional(path, v) == {}

\* mutant: failure_info declared as z.record(z.any()).optional()
CritiqueRequestSchemaTypedFailureInfo(b) ==
  IF b.kind # "object" THEN {Issue("", "invalid_type")}
  ELSE StringMin1("id", b.id)
       \cup StringMin1("prd", b.prd)
       \cup StringMin1("buggy_solution_code", b.buggy_solution_code)
       \cup (IF b.failure_info.type \in {"undefined", "object"} THEN {}
             ELSE {Issue("failure_info", "invalid_type")})
       \cup OptionalString("label", b.label)
       \cup OptionalString("qwq_critique", b.qwq_critique)

\* mutant: the validator stops at the first field that fails
CritiqueRequestSchemaFailFast(b) ==
  IF b.kind # "object" THEN {Issue("", "invalid_type")}
  ELSE IF StringMin1("id", b.id) # {} THEN StringMin1("id", b.id)
  ELSE IF StringMin1("prd", b.prd) # {} THEN StringMin1("prd", b.prd)
  ELSE IF StringMin1("buggy_solution_code", b.buggy_solution_code) # {}
       THEN StringMin1("buggy_solution_code", b.buggy_solution_code)
  ELSE IF OptionalString("label", b.label) # {} THEN OptionalString("label", b.label)
  ELSE OptionalString("qwq_critique", b.qwq_critique)

\* the issues CritiqueRequestSchema.parse collects: zod visits every key of
\* the object; a value that is no object has one issue at the root
CritiqueRequestSchema(b) ==
  IF b.kind # "object" THEN {Issue("", "invalid_type")}
  ELSE StringMin1("id", b.id)
       \cup StringMin1("prd", b.prd)
       \cup StringMin1("buggy_solution_code", b.buggy_solution_code)
       \cup AnyOptional("failure_info", b.failure_info)
       \cup OptionalString("label", b.label)
       \cup OptionalString("qwq_critique", b.qwq_critique)
       \cup AnyOptional("meta", b.meta)

\* ------------------------------------------------------------ the responses

DEFAULT_TIMEOUT_MS == 45000

\* const model = process.env.HF_MODEL || "Qwen/Qwen2.5-Coder-7B-Instruct"
DEFAULT_MODEL == <<"Qwen/Qwen2.5-Coder-7B-Instruct">>
ModelVals == {Unset, EnvStr(<<>>), EnvStr(<<"m">>)}
Model(e) == IF Truthy(e) THEN e.val ELSE DEFAULT_MODEL

\* What create() resolves with: nothing at all ("null"), an object without
\* choices, a choice without message, a message whose content is null, or a
\* message with content. A text is a sequence of pieces: the words of the
\* three headers, and other text.
Completion(kind, content) == [kind |-> kind, content |-> content]
NoCompletion == Completion("unset", <<>>)

DETAILED_DIAGNOSIS == <<"Detailed ", "Diagnosis">>
PROPOSED_FIX == <<"[Proposed ", "Fix]">>
TEST_VALIDATION == <<"<Test_Validation>">>
Pieces == {"Detailed ", "Diagnosis", "[Proposed ", "Fix]", "<Test_Validation>", "x"}

Completions ==
  {Completion(k, <<>>) : k \in {"null", "no_choices", "no_message", "null_content"}}
  \cup {Completion("content", t) :
          t \in {<<>>, <<"x">>, DETAILED_DIAGNOSIS \o PROPOSED_FIX \o TEST_VALIDATION}}

\* completion.choices?.[0]?.message?.content ?? ""
ContentOrEmpty(c) == IF c.kind = "content" THEN c.content ELSE <<>>

\* mutant: any one header is enough
HasAnyHeader(text) ==
  \/ Includes(text, DETAILED_DIAGNOSIS)
  \/ Includes(text, PROPOSED_FIX)
  \/ Includes(text, TEST_VALIDATION)

\* const hasAllHeaders = text.includes(...) && text.includes(...) && ...
HasAllHeaders(text) ==
  /\ Includes(text, DETAILED_DIAGNOSIS)
  /\ Includes(text, PROPOSED_FIX)
  /\ Includes(text, TEST_VALIDATION)

NoResponse ==
  [status |-> 0, ok |-> FALSE, error |-> "", request_id |-> 0, details |-> {},
   id |-> Absent, model |-> <<>>, hasAllHeaders |-> FALSE, text |-> <<>>]

\* jsonNoStore({ ok: false, request_id, error, details? }, status)
Failure(rid, status, error, details) ==
  [status |-> status, ok |-> FALSE, error |-> error, request_id |-> rid,
   details |-> details, id |-> Absent, model |-> <<>>, hasAllHeaders |-> FALSE,
   text |-> <<>>]

\* jsonNoStore({ ok: true, request_id, id, model, hasAllHeaders, text }) with
\* the default status
Success(rid, id, model, text) ==
  [status |-> 200, ok |-> TRUE, error |-> "", request_id |-> rid, details |-> {},
   id |-> id, model |-> model, hasAllHeaders |-> HasAllHeaders(text),
   text |-> text]

\* an exception: a ZodError carries its issues, any other has a name
ZodError(issues) == [zod |-> TRUE, name |-> "ZodError", issues |-> issues]
Exception(name) == [zod |-> FALSE, name |-> name, issues |-> {}]

\* mutant: the timeout failure is sent with the generic status
ClassifyAbortAs500(rid, err) ==
  IF err.zod THEN Failure(rid, 400, "Invalid request body", err.issues)
  ELSE IF err.name = "AbortError" THEN Failure(rid, 500, "Upstream model request timed out", {})
  ELSE Failure(rid, 500, "Server error", {})

\* the catch block of POST
Classify(rid, err) ==
  IF err.zod THEN Failure(rid, 400, "Invalid request body", err.issues)
  ELSE IF err.name = "AbortError" THEN Failure(rid, 504, "Upstream model request timed out", {})
  ELSE Failure(rid, 500, "Server error", {})

\* Number(process.env.CRITIQUE_TIMEOUT_MS || 45_000)
TimeoutMs(e) == IF Truthy(e) THEN StringToNumber(e.val) ELSE Num(DEFAULT_TIMEOUT_MS)

\* ------------------------------------------------------- the prompt builder

MAX_PRD_CHARS == 20000
MAX_CODE_CHARS == 20000
MAX_FAILUREINFO_CHARS == 12000
MAX_PROMPT_CHARS == 60000

\* A text is a sequence of runs of characters: white space ("ws"), the
\* content of a field ("text"), the literal null ("null"), the fixed lines of
\* the prompt ("fixed"), the visible part of a truncation marker ("mark",
\* with the count d it states) and what a later cut leaves of one ("cut").
\* Runs of the same kind that meet are one run; markers never merge.
Run(kind, n) == [kind |-> kind, n |-> n, d |-> 0]
Ws(n) == IF n = 0 THEN <<>> ELSE <<Run("ws", n)>>
Chars(kind, n) == IF n = 0 THEN <<>> ELSE <<Run(kind, n)>>

\* a + b
TConcat(a, b) ==
  IF a = <<>> THEN b
  ELSE IF b = <<>> THEN a
  ELSE IF a[Len(a)].kind = b[1].kind /\ b[1].kind # "mark"
       THEN SubSeq(a, 1, Len(a) - 1)
            \o <<[a[Len(a)] EXCEPT !.n = @ + b[1].n]>>
            \o Tail(b)
       ELSE a \o b

\* s.length
RECURSIVE TLen(_)
TLen(t) == IF t = <<>> THEN 0 ELSE t[1].n + TLen(Tail(t))

\* s.slice(0, max)
RECURSIVE TSlice(_, _)
TSlice(t, max) ==
  IF t = <<>> \/ max <= 0 THEN <<>>
  ELSE IF t[1].n <= max THEN <<t[1]>> \o TSlice(Tail(t), max - t[1].n)
  ELSE <<[kind |-> IF t[1].kind = "mark" THEN "cut" ELSE t[1].kind, n |-> max, d |-> 0]>>

\* s.trim()
RECURSIVE TTrimStart(_)
TTrimStart(t) == IF t # <<>> /\ t[1].kind = "ws" THEN TTrimStart(Tail(t)) ELSE t

RECURSIVE TTrimEnd(_)
TTrimEnd(t) ==
  IF t # <<>> /\ t[Len(t)].kind = "ws" THEN TTrimEnd(SubSeq(t, 1, Len(t) - 1)) ELSE t

TTrim(t) == TTrimEnd(TTrimStart(t))

\* the length of a number written in decimal
RECURSIVE DecimalDigits(_)
DecimalDigits(n) == IF n < 10 THEN 1 ELSE 1 + DecimalDigits(n \div 10)

\* `\n\n...[TRUNCATED ${dropped} chars]`: two newlines, then 21 characters
\* around the count
Marker(dropped) ==
  <<Run("ws", 2), [kind |-> "mark", n |-> 21 + DecimalDigits(dropped), d |-> dropped]>>

\* truncate(s, max)
Truncate(s, max) ==
  IF TLen(s) <= max THEN s
  ELSE TConcat(TSlice(s, max), Marker(TLen(s) - max))

\* what a piece of code yields: a text, or an exception
Value(t) == [threw |-> FALSE, text |-> t]
Threw == [threw |-> TRUE, text |-> <<>>]

NullText == <<Run("null", 4)>>

\* a failure_info value, by what JSON.stringify makes of it: undefined and
\* null, a JSON value (len is the length of its pretty-printed text), a value
\* on which JSON.stringify throws (a cycle, a BigInt), and one for which it
\* returns undefined (a function, a symbol)
FailureInfo(kind, len) == [kind |-> kind, len |-> len]

\* JSON.stringify(x ?? null, null, 2): a string, undefined, or an exception
JsonStringify(x) ==
  IF x.kind \in {"undefined", "null"} THEN [outcome |-> "string", text |-> NullText]
  ELSE IF x.kind = "json" THEN [outcome |-> "string", text |-> Chars("text", x.len)]
  ELSE IF x.kind = "throws" THEN [outcome |-> "throws", text |-> <<>>]
  ELSE [outcome |-> "undefined", text |-> <<>>]

\* mutant: safeStringifyFailureInfo without its try/catch
StringifyFailureInfoUnsafe(x) ==
  LET raw == JsonStringify(x)
  IN  IF raw.outcome = "string" THEN Value(Truncate(raw.text, MAX_FAILUREINFO_CHARS))
      ELSE Threw

\* safeStringifyFailureInfo(x): truncate(undefined, ...) throws on s.length,
\* inside the same try
SafeStringifyFailureInfo(x) ==
  LET raw == JsonStringify(x)
  IN  IF raw.outcome = "string" THEN Value(Truncate(raw.text, MAX_FAILUREINFO_CHARS))
      ELSE Value(NullText)

\* the fixed lines of the prompt, joined by "\n": the lines up to
\* "=== PRD ===", and the four lines that head or close the other sections
PREAMBLE_CHARS == 1771
CODE_HEADING_CHARS == 18
FAILURE_INFO_HEADING_CHARS == 27
LABEL_HEADING_CHARS == 34
CLOSING_CHARS == 79

\* a validated request, as buildPrompt reads it: label is a text or absent
PromptInput(prd, code, fi, hasLabel, label) ==
  [prd |-> prd, buggy_solution_code |-> code, failure_info |-> fi,
   hasLabel |-> hasLabel, label |-> label]

\* const prd = truncate(input.prd, MAX_PRD_CHARS), rendered as prd.trim()
PrdSection(input) == TTrim(Truncate(input.prd, MAX_PRD_CHARS))

\* const code = truncate(input.buggy_solution_code, MAX_CODE_CHARS), rendered
\* as code.trim()
CodeSection(input) == TTrim(Truncate(input.buggy_solution_code, MAX_CODE_CHARS))

\* const label = input.label ?? "null"
LabelSection(input) == IF input.hasLabel THEN input.label ELSE NullText

\* [...].join("\n")
RECURSIVE JoinAll(_)
JoinAll(parts) ==
  IF parts = <<>> THEN <<>> ELSE TConcat(parts[1], JoinAll(Tail(parts)))

\* the lines of the prompt around the section of failure_info
Assemble(input, failureInfo) ==
  JoinAll(<<Chars("fixed", PREAMBLE_CHARS), Ws(1), PrdSection(input), Ws(2),
            Chars("fixed", CODE_HEADING_CHARS), Ws(1), CodeSection(input), Ws(2),
            Chars("fixed", FAILURE_INFO_HEADING_CHARS), Ws(1), failureInfo, Ws(2),
            Chars("fixed", LABEL_HEADING_CHARS), Ws(1), LabelSection(input), Ws(2),
            Chars("fixed", CLOSING_CHARS)>>)

\* buildPrompt(input)
BuildPrompt(input) ==
  LET failureInfo == SafeStringifyFailureInfo(input.failure_info)
  IN  IF failureInfo.threw THEN Threw
      ELSE Value(Truncate(Assemble(input, failureInfo.text), MAX_PROMPT_CHARS))

\* ---------------------------------------------------------------- the state

VARIABLES
  env,        \* process.env: HF_TOKEN, HF_MODEL and CRITIQUE_TIMEOUT_MS
  pc,         \* where each invocation of POST stands
  req,        \* its request: the content-type header and the body
  requestId,  \* its requestId
  bodyRead,   \* whether req.json() was called
  timer,      \* its timeout timer: none, armed, fired or cleared
  timeoutMs,  \* the delay setTimeout was given
  armCount,   \* calls of setTimeout
  clearCount, \* calls of clearTimeout
  aborted,    \* controller.signal.aborted
  call,       \* the chat-completion promise: none, pending, resolved, rejected
  callErr,    \* the name of the error it was rejected with
  calls,      \* calls of client.chat.completions.create
  completion, \* what the promise resolved with
  response,   \* the response returned
  promptInput, \* the validated request given to buildPrompt
  promptOut,   \* what buildPrompt made of it
  routeId,     \* SamplePage: the id of the route, 0 while no page is mounted
  sample,      \* its state sample
  pageErr,     \* its state err
  critique,    \* its state critique
  critiqueLoading, \* its state critiqueLoading
  fetches,     \* the sample fetches in flight, each with its alive flag
  critiqueReq  \* the sample the critique request in flight was issued for

handlerVars ==
  <<env, pc, req, requestId, bodyRead, timer, timeoutMs, armCount,
    clearCount, aborted, call, callErr, calls, completion, response>>

builderVars == <<promptInput, promptOut>>

pageVars ==
  <<routeId, sample, pageErr, critique, critiqueLoading, fetches, critiqueReq>>

vars == <<handlerVars, builderVars, pageVars>>

timerVars == <<timer, timeoutMs, armCount, clearCount, aborted>>
callVars == <<call, callErr, calls, completion>>

NoRequest == [ct |-> Unset, body |-> OtherBody]

NoPromptInput == PromptInput(<<>>, <<>>, FailureInfo("undefined", 0), FALSE, <<>>)
NoPromptOut ==
  [built |-> FALSE, prd |-> <<>>, code |-> <<>>, failureInfo |-> Value(<<>>),
   prompt |-> Value(<<>>)]

\* buildPrompt is not under study
BuilderIdle == promptInput = NoPromptInput /\ promptOut = NoPromptOut

\* useState(null): no sample, no critique
NoSample == [id |-> 0, complete |-> FALSE]
NoCritique == [set |-> FALSE, ok |-> FALSE, of |-> 0]

\* no page is mounted
PageIdle ==
  /\ routeId = 0
  /\ sample = NoSample
  /\ pageErr = ""
  /\ critique = NoCritique
  /\ critiqueLoading = FALSE
  /\ fetches = {}
  /\ critiqueReq = 0

\* no invocation of POST is in flight
HandlerIdle ==
  /\ pc = [i \in Procs |-> "idle"]
  /\ req = [i \in Procs |-> NoRequest]
  /\ requestId = [i \in Procs |-> 0]
  /\ bodyRead = [i \in Procs |-> FALSE]
  /\ timer = [i \in Procs |-> "none"]
  /\ timeoutMs = [i \in Procs |-> Num(0)]
  /\ armCount = [i \in Procs |-> 0]
  /\ clearCount = [i \in Procs |-> 0]
  /\ aborted = [i \in Procs |-> FALSE]
  /\ call = [i \in Procs |-> "none"]
  /\ callErr = [i \in Procs |-> "none"]
  /\ calls = [i \in Procs |-> 0]
  /\ completion = [i \in Procs |-> NoCompletion]
  /\ response = [i \in Procs |-> NoResponse]

Init ==
  /\ env \in [HF_TOKEN : TokenVals, HF_MODEL : {Unset, EnvStr(<<"m">>)},
               CRITIQUE_TIMEOUT_MS : TimeoutVals]
  /\ HandlerIdle
  /\ BuilderIdle
  /\ PageIdle

\* ------------------------------------------------------------- the handler

\* return jsonNoStore(...)
Return(i, res) ==
  /\ response' = [response EXCEPT ![i] = res]
  /\ pc' = [pc EXCEPT ![i] = "done"]

\* mutant: the catch block handles a ZodError and rethrows anything else
CatchZodOnly(i, err) ==
  IF err.zod
  THEN Return(i, Failure(requestId[i], 400, "Invalid request body", err.issues))
  ELSE /\ pc' = [pc EXCEPT ![i] = "crashed"]
       /\ UNCHANGED response

\* an exception thrown inside the outer try reaches its catch block
Catch(i, err) == Return(i, Classify(requestId[i], err))

\* crypto.randomUUID(): an id no invocation in flight holds
RequestIds == Procs
RandomUUID ==
  CHOOSE id \in RequestIds :
    /\ id \notin {requestId[j] : j \in Procs}
    /\ \A other \in RequestIds : other \notin {requestId[j] : j \in Procs} => id <= other

\* a request reaches POST: const requestId = crypto.randomUUID()
BeginFrom(i, cts, bodies) ==
  /\ pc[i] = "idle"
  /\ \E ct \in cts, b \in bodies : req' = [req EXCEPT ![i] = [ct |-> ct, body |-> b]]
  /\ requestId' = [requestId EXCEPT ![i] = RandomUUID]
  /\ pc' = [pc EXCEPT ![i] = "guard_ct"]
  /\ UNCHANGED <<pageVars, builderVars, env, bodyRead, timerVars, callVars, response>>

\* requests are served one after the other
Begin(i) ==
  /\ \A j \in Procs \ {i} : pc[j] = "idle" /\ i < j
  /\ BeginFrom(i, ContentTypes, Bodies)

\* const ct = req.headers.get("content-type") || ""
HeaderOrEmpty(h) == IF Truthy(h) THEN h.val ELSE <<>>

\* mutant: the Content-Type guard follows `await req.json()`
CheckContentTypeAfterRead(i) ==
  /\ pc[i] = "guard_ct"
  /\ bodyRead' = [bodyRead EXCEPT ![i] = TRUE]
  /\ IF req[i].body.kind = "throws"
     THEN Catch(i, Exception(req[i].body.err))
     ELSE IF ~Includes(HeaderOrEmpty(req[i].ct), JsonType)
     THEN Return(i, Failure(requestId[i], 415, "Content-Type must be application/json", {}))
     ELSE /\ pc' = [pc EXCEPT ![i] = "guard_token"]
          /\ UNCHANGED response
  /\ UNCHANGED <<pageVars, builderVars, env, req, requestId, timerVars, callVars>>

\* mutant: the body is validated before the Content-Type guard
CheckContentTypeAfterValidation(i) ==
  /\ pc[i] = "guard_ct"
  /\ IF req[i].body.kind # "throws" /\ CritiqueRequestSchema(req[i].body) # {}
     THEN Catch(i, ZodError(CritiqueRequestSchema(req[i].body)))
     ELSE IF ~Includes(HeaderOrEmpty(req[i].ct), JsonType)
     THEN Return(i, Failure(requestId[i], 415, "Content-Type must be application/json", {}))
     ELSE /\ pc' = [pc EXCEPT ![i] = "guard_token"]
          /\ UNCHANGED response
  /\ UNCHANGED <<pageVars, builderVars, env, req, requestId, bodyRead, timerVars, callVars>>

\* the Content-Type guard
CheckContentType(i) ==
  /\ pc[i] = "guard_ct"
  /\ IF ~Includes(HeaderOrEmpty(req[i].ct), JsonType)
     THEN Return(i, Failure(requestId[i], 415, "Content-Type must be application/json", {}))
     ELSE /\ pc' = [pc EXCEPT ![i] = "guard_token"]
          /\ UNCHANGED response
  /\ UNCHANGED <<pageVars, builderVars, env, req, requestId, bodyRead, timerVars, callVars>>

\* mutant: if (hfToken === undefined)
TokenUndefined(tok) == ~tok.set

\* if (!hfToken)
TokenMissing(tok) == ~Truthy(tok)

\* the HF_TOKEN guard
CheckToken(i) ==
  /\ pc[i] = "guard_token"
  /\ IF TokenMissing(env.HF_TOKEN)
     THEN Return(i, Failure(requestId[i], 500, "Server misconfigured: HF_TOKEN missing", {}))
     ELSE /\ pc' = [pc EXCEPT ![i] = "read"]
          /\ UNCHANGED response
  /\ UNCHANGED <<pageVars, builderVars, env, req, requestId, bodyRead, timerVars, callVars>>

\* const body = await req.json()
ReadBody(i) ==
  /\ pc[i] = "read"
  /\ bodyRead' = [bodyRead EXCEPT ![i] = TRUE]
  /\ IF req[i].body.kind = "throws"
     THEN Catch(i, Exception(req[i].body.err))
     ELSE /\ pc' = [pc EXCEPT ![i] = "parse"]
          /\ UNCHANGED response
  /\ UNCHANGED <<pageVars, builderVars, env, req, requestId, timerVars, callVars>>

\* const input = CritiqueRequestSchema.parse(body)
ParseBody(i) ==
  /\ pc[i] = "parse"
  /\ LET issues == CritiqueRequestSchema(req[i].body)
     IN  IF issues # {}
         THEN Catch(i, ZodError(issues))
         ELSE /\ pc' = [pc EXCEPT ![i] = "arm"]
              /\ UNCHANGED response
  /\ UNCHANGED <<pageVars, builderVars, env, req, requestId, bodyRead, timerVars, callVars>>

\* mutant: the timer is set only after the call's await
ArmTimerAfterCall(i) ==
  /\ pc[i] = "arm"
  /\ pc' = [pc EXCEPT ![i] = "call"]
  /\ UNCHANGED <<pageVars, builderVars, env, req, requestId, bodyRead, timerVars, callVars, response>>

\* const t = setTimeout(() => controller.abort(), timeoutMs)
ArmTimer(i) ==
  /\ pc[i] = "arm"
  /\ timeoutMs' = [timeoutMs EXCEPT ![i] = TimeoutMs(env.CRITIQUE_TIMEOUT_MS)]
  /\ timer' = [timer EXCEPT ![i] = "armed"]
  /\ armCount' = [armCount EXCEPT ![i] = @ + 1]
  /\ pc' = [pc EXCEPT ![i] = "call"]
  /\ UNCHANGED <<pageVars, builderVars, env, req, requestId, bodyRead, clearCount, aborted, callVars, response>>

\* await client.chat.completions.create({...}, { signal: controller.signal })
IssueCall(i) ==
  /\ pc[i] = "call"
  /\ calls' = [calls EXCEPT ![i] = @ + 1]
  /\ call' = [call EXCEPT ![i] = "pending"]
  /\ pc' = [pc EXCEPT ![i] = "await"]
  /\ UNCHANGED <<pageVars, builderVars, env, req, requestId, bodyRead, timerVars, callErr,
                 completion, response>>

\* mutant: one AbortController at module level, shared by all invocations
TimerFireShared(i) ==
  /\ timer[i] = "armed"
  /\ \/ pc[i] = "await" /\ call[i] = "pending"
     \/ pc[i] \in {"done", "crashed"}
  /\ timer' = [timer EXCEPT ![i] = "fired"]
  /\ aborted' = [j \in Procs |-> TRUE]
  /\ UNCHANGED <<pageVars, builderVars, env, pc, req, requestId, bodyRead, timeoutMs, armCount,
                 clearCount, callVars, response>>

\* the timer callback: () => controller.abort(). It runs only between the
\* handler's steps, and a timer that was never cleared outlives the handler
TimerFire(i) ==
  /\ timer[i] = "armed"
  /\ \/ pc[i] = "await" /\ call[i] = "pending"
     \/ pc[i] \in {"done", "crashed"}
  /\ timer' = [timer EXCEPT ![i] = "fired"]
  /\ aborted' = [aborted EXCEPT ![i] = TRUE]
  /\ UNCHANGED <<pageVars, builderVars, env, pc, req, requestId, bodyRead, timeoutMs, armCount,
                 clearCount, callVars, response>>

\* the endpoint answers
ClientResolveFrom(i, completions) ==
  /\ pc[i] = "await" /\ call[i] = "pending" /\ ~aborted[i]
  /\ call' = [call EXCEPT ![i] = "resolved"]
  /\ \E c \in completions : completion' = [completion EXCEPT ![i] = c]
  /\ UNCHANGED <<pageVars, builderVars, env, pc, req, requestId, bodyRead, timerVars, callErr, calls, response>>

ClientResolve(i) == ClientResolveFrom(i, Completions)

\* The names of the errors create() rejects with. The handler tells a
\* timeout from any other failure by err.name alone, and the name is the
\* client's choice: on its own the call fails with an API or connection
\* error ("Error") or with an abort raised below the handler ("AbortError");
\* once the signal is aborted it fails with the fetch layer's "AbortError"
\* or with the client's own abort error, an Error subclass that keeps the
\* inherited name "Error".
RejectNames == {"Error", "AbortError"}
AbortRejectNames == {"AbortError", "Error"}

\* the call fails on its own
ClientReject(i) ==
  /\ pc[i] = "await" /\ call[i] = "pending" /\ ~aborted[i]
  /\ \E n \in RejectNames : callErr' = [callErr EXCEPT ![i] = n]
  /\ call' = [call EXCEPT ![i] = "rejected"]
  /\ UNCHANGED <<pageVars, builderVars, env, pc, req, requestId, bodyRead, timerVars, calls,
                 completion, response>>

\* the call is aborted through the signal
ClientAbort(i) ==
  /\ pc[i] = "await" /\ call[i] = "pending" /\ aborted[i]
  /\ \E n \in AbortRejectNames : callErr' = [callErr EXCEPT ![i] = n]
  /\ call' = [call EXCEPT ![i] = "rejected"]
  /\ UNCHANGED <<pageVars, builderVars, env, pc, req, requestId, bodyRead, timerVars, calls,
                 completion, response>>

\* mutant: clearTimeout after the await instead of in a finally block
ClearTimeoutOnSuccess(i) ==
  IF call[i] = "resolved"
  THEN /\ timer' = [timer EXCEPT ![i] = "cleared"]
       /\ clearCount' = [clearCount EXCEPT ![i] = @ + 1]
  ELSE UNCHANGED <<timer, clearCount>>

\* finally { clearTimeout(t) }
ClearTimeout(i) ==
  /\ timer' = [timer EXCEPT ![i] = "cleared"]
  /\ clearCount' = [clearCount EXCEPT ![i] = @ + 1]

\* mutant: text = completion.choices[0].message.content
RespondUnguarded(i) ==
  IF completion[i].kind # "content"
  THEN Catch(i, Exception("TypeError"))
  ELSE Return(i, Success(requestId[i], req[i].body.id, Model(env.HF_MODEL),
                         completion[i].content))

\* the await returned: the text is read off the completion (reading a
\* property of no completion at all throws a TypeError), then the success
\* response
Respond(i) ==
  IF completion[i].kind = "null"
  THEN Catch(i, Exception("TypeError"))
  ELSE Return(i, Success(requestId[i], req[i].body.id, Model(env.HF_MODEL),
                         ContentOrEmpty(completion[i])))

\* mutant: a rejected call is issued once more
SettleRetry(i) ==
  /\ pc[i] = "await"
  /\ call[i] \in {"resolved", "rejected"}
  /\ IF call[i] = "rejected" /\ calls[i] < 2
     THEN /\ calls' = [calls EXCEPT ![i] = @ + 1]
          /\ call' = [call EXCEPT ![i] = "pending"]
          /\ UNCHANGED <<pc, response, timer, clearCount, callErr, completion>>
     ELSE /\ timer' = [timer EXCEPT ![i] = "cleared"]
          /\ clearCount' = [clearCount EXCEPT ![i] = @ + 1]
          /\ IF call[i] = "resolved"
             THEN Respond(i)
             ELSE Catch(i, Exception(callErr[i]))
          /\ UNCHANGED callVars
  /\ UNCHANGED <<pageVars, builderVars, env, req, requestId, bodyRead, timeoutMs, armCount, aborted>>

\* the await returns or throws: the finally block, then the success response
\* or the catch block
Settle(i) ==
  /\ pc[i] = "await"
  /\ call[i] \in {"resolved", "rejected"}
  /\ ClearTimeout(i)
  /\ IF call[i] = "resolved"
     THEN Respond(i)
     ELSE Catch(i, Exception(callErr[i]))
  /\ UNCHANGED <<pageVars, builderVars, env, req, requestId, bodyRead, timeoutMs, armCount, aborted, callVars>>

\* the response is delivered and the invocation is gone
Finish(i) ==
  /\ pc[i] = "done"
  /\ timer[i] # "armed"
  /\ pc' = [pc EXCEPT ![i] = "idle"]
  /\ req' = [req EXCEPT ![i] = NoRequest]
  /\ requestId' = [requestId EXCEPT ![i] = 0]
  /\ bodyRead' = [bodyRead EXCEPT ![i] = FALSE]
  /\ timer' = [timer EXCEPT ![i] = "none"]
  /\ timeoutMs' = [timeoutMs EXCEPT ![i] = Num(0)]
  /\ armCount' = [armCount EXCEPT ![i] = 0]
  /\ clearCount' = [clearCount EXCEPT ![i] = 0]
  /\ aborted' = [aborted EXCEPT ![i] = FALSE]
  /\ call' = [call EXCEPT ![i] = "none"]
  /\ callErr' = [callErr EXCEPT ![i] = "none"]
  /\ calls' = [calls EXCEPT ![i] = 0]
  /\ completion' = [completion EXCEPT ![i] = NoCompletion]
  /\ response' = [response EXCEPT ![i] = NoResponse]
  /\ UNCHANGED <<pageVars, builderVars, env>>

Next ==
  \E i \in Procs :
    \/ Begin(i)
    \/ CheckContentType(i)
    \/ CheckToken(i)
    \/ ReadBody(i)
    \/ ParseBody(i)
    \/ ArmTimer(i)
    \/ IssueCall(i)
    \/ TimerFire(i)
    \/ ClientResolve(i)
    \/ ClientReject(i)
    \/ ClientAbort(i)
    \/ Settle(i)
    \/ Finish(i)

Spec == Init /\ [][Next]_vars

\* ------------------------------------- the handler on payloads of every shape

\* a JSON request with valid required fields and any optional fields
BeginShaped(i) ==
  /\ \A j \in Procs \ {i} : pc[j] = "idle" /\ i < j
  /\ BeginFrom(i, {EnvStr(JsonType)}, ShapedBodies)

NextShapes ==
  \E i \in Procs :
    \/ BeginShaped(i)
    \/ CheckContentType(i)
    \/ CheckToken(i)
    \/ ReadBody(i)
    \/ ParseBody(i)
    \/ ArmTimer(i)
    \/ IssueCall(i)
    \/ TimerFire(i)
    \/ ClientResolve(i)
    \/ ClientReject(i)
    \/ ClientAbort(i)
    \/ Settle(i)
    \/ Finish(i)

SpecShapes == Init /\ [][NextShapes]_vars

\* ------------------------------------- the handler on texts of every make

ValidBody ==
  [kind |-> "object", err |-> "none"]
  @@ [NoFields EXCEPT !.id = JString(1), !.prd = JString(1),
                      !.buggy_solution_code = JString(1)]

\* a configured server
InitText ==
  /\ env \in [HF_TOKEN : {EnvStr(<<"t">>)}, HF_MODEL : ModelVals,
               CRITIQUE_TIMEOUT_MS : {Unset}]
  /\ HandlerIdle
  /\ BuilderIdle
  /\ PageIdle

\* a valid JSON request
BeginValid(i) ==
  /\ \A j \in Procs \ {i} : pc[j] = "idle" /\ i < j
  /\ BeginFrom(i, {EnvStr(JsonType)}, {ValidBody})

\* every text of up to MaxTextLen pieces
Texts == SeqsUpTo(Pieces, MaxTextLen)

\* the endpoint answers with a text
ClientResolveText(i) ==
  ClientResolveFrom(i, {Completion("content", t) : t \in Texts})

NextText ==
  \E i \in Procs :
    \/ BeginValid(i)
    \/ CheckContentType(i)
    \/ CheckToken(i)
    \/ ReadBody(i)
    \/ ParseBody(i)
    \/ ArmTimer(i)
    \/ IssueCall(i)
    \/ TimerFire(i)
    \/ ClientResolveText(i)
    \/ ClientReject(i)
    \/ ClientAbort(i)
    \/ Settle(i)
    \/ Finish(i)

SpecText == InitText /\ [][NextText]_vars

\* ------------------------------------------- invocations in flight together

\* two valid payloads that differ in their id
ConcurrentBodies == {[ValidBody EXCEPT !.id = JString(n)] : n \in {1, 2}}

\* a valid JSON request, whatever else is in flight
BeginConcurrent(i) == BeginFrom(i, {EnvStr(JsonType)}, ConcurrentBodies)

NextConc ==
  \E i \in Procs :
    \/ BeginConcurrent(i)
    \/ CheckContentType(i)
    \/ CheckToken(i)
    \/ ReadBody(i)
    \/ ParseBody(i)
    \/ ArmTimer(i)
    \/ IssueCall(i)
    \/ TimerFire(i)
    \/ ClientResolve(i)
    \/ ClientReject(i)
    \/ ClientAbort(i)
    \/ Settle(i)
    \/ Finish(i)

SpecConc == InitText /\ [][NextConc]_vars

\* ------------------------------------------------ buildPrompt on its own

\* the lengths around a budget: one character, the budget, one more, and
\* ten more (a count of two digits in the marker)
Lens(budget) == {1, budget, budget + 1, budget + 10}

\* the texts of a field around a budget, with white space before and after
FieldTexts(budget) ==
  { TConcat(Ws(lead), TConcat(Chars("text", len - lead - trail), Ws(trail))) :
      <<len, lead, trail>> \in
        {t \in Lens(budget) \X (0..MaxPad) \X (0..MaxPad) : t[2] + t[3] <= t[1]} }

FailureInfos ==
  {FailureInfo(k, 0) : k \in {"undefined", "null", "throws", "nostring"}}
  \cup {FailureInfo("json", len) : len \in Lens(MAX_FAILUREINFO_CHARS)}

\* label: absent, empty, short, and as long as the whole prompt may be
PromptInputs ==
  { PromptInput(prd, code, fi, l[1], l[2]) :
      prd \in FieldTexts(MAX_PRD_CHARS), code \in FieldTexts(MAX_CODE_CHARS),
      fi \in FailureInfos,
      l \in {<<FALSE, <<>>>>, <<TRUE, <<>>>>, <<TRUE, Chars("text", 1)>>,
              <<TRUE, Chars("text", MAX_PROMPT_CHARS)>>} }

InitPrompt ==
  /\ env = [HF_TOKEN |-> EnvStr(<<"t">>), HF_MODEL |-> Unset,
            CRITIQUE_TIMEOUT_MS |-> Unset]
  /\ HandlerIdle
  /\ PageIdle
  /\ promptInput \in PromptInputs
  /\ promptOut = NoPromptOut

\* { role: "user", content: buildPrompt(input) }
BuildPromptStep ==
  /\ ~promptOut.built
  /\ promptOut' =
       [built |-> TRUE,
        prd |-> PrdSection(promptInput),
        code |-> CodeSection(promptInput),
        failureInfo |-> SafeStringifyFailureInfo(promptInput.failure_info),
        prompt |-> BuildPrompt(promptInput)]
  /\ UNCHANGED <<promptInput, handlerVars, pageVars>>

NextPrompt == BuildPromptStep

SpecPrompt == InitPrompt /\ [][NextPrompt]_vars

\* ------------------------------------------------------------ the sample page

SampleIds == 1..MaxSamples

\* the effect of SamplePage, up to its first await: the states are reset and
\* a fetch for the id is in flight, its alive flag set
StartFetch(id) ==
  /\ pageErr' = ""
  /\ sample' = NoSample
  /\ critique' = NoCritique
  /\ fetches' = {[f EXCEPT !.alive = FALSE] : f \in fetches} \cup {[id |-> id, alive |-> TRUE]}

\* the page is mounted on a route id, and its effect has run
InitPage ==
  /\ env = [HF_TOKEN |-> EnvStr(<<"t">>), HF_MODEL |-> Unset,
            CRITIQUE_TIMEOUT_MS |-> Unset]
  /\ HandlerIdle
  /\ BuilderIdle
  /\ routeId \in SampleIds
  /\ sample = NoSample
  /\ pageErr = ""
  /\ critique = NoCritique
  /\ critiqueLoading = FALSE
  /\ fetches = {[id |-> routeId, alive |-> TRUE]}
  /\ critiqueReq = 0

\* the route id changes: the cleanup of the last effect clears its alive
\* flag, and the effect runs again for the new id
Navigate ==
  /\ \E id \in SampleIds \ {routeId} :
       /\ routeId' = id
       /\ StartFetch(id)
  /\ UNCHANGED <<critiqueLoading, critiqueReq, handlerVars, builderVars>>

\* the query of a fetch returns: an error, no row, or the row of the id,
\* with or without its prd and buggy_solution_code
FetchReturn ==
  /\ \E f \in fetches :
       /\ fetches' = fetches \ {f}
       /\ IF ~f.alive THEN UNCHANGED <<pageErr, sample>>
          ELSE \/ /\ \E e \in {"error", "No sample found"} : pageErr' = e
                  /\ UNCHANGED sample
               \/ /\ \E c \in BOOLEAN : sample' = [id |-> f.id, complete |-> c]
                  /\ UNCHANGED pageErr
  /\ UNCHANGED <<routeId, critique, critiqueLoading, critiqueReq, handlerVars, builderVars>>

\* a click on the button, enabled unless critiqueLoading: runCritique up to
\* its first await
RunCritique ==
  /\ sample # NoSample
  /\ ~critiqueLoading
  /\ IF ~sample.complete
     THEN /\ critique' = [set |-> TRUE, ok |-> FALSE, of |-> sample.id]
          /\ UNCHANGED <<critiqueLoading, critiqueReq>>
     ELSE /\ critiqueLoading' = TRUE
          /\ critique' = NoCritique
          /\ critiqueReq' = sample.id
  /\ UNCHANGED <<routeId, sample, pageErr, fetches, handlerVars, builderVars>>

\* the request of runCritique returns or fails: setCritique with what came
\* back, then the finally block
CritiqueReturn ==
  /\ critiqueReq # 0
  /\ \E ok \in BOOLEAN : critique' = [set |-> TRUE, ok |-> ok, of |-> critiqueReq]
  /\ critiqueLoading' = FALSE
  /\ critiqueReq' = 0
  /\ UNCHANGED <<routeId, sample, pageErr, fetches, handlerVars, builderVars>>

NextPage ==
  \/ Navigate
  \/ FetchReturn
  \/ RunCritique
  \/ CritiqueReturn

SpecPage == InitPage /\ [][NextPage]_vars

\* ------------------------------------------------- vocabulary of the claims

Done(i) == pc[i] = "done"

\* the request declares JSON content
DeclaresJson(i) == req[i].ct.set /\ Includes(req[i].ct.val, JsonType)

\* HF_TOKEN is absent or empty
NoCredential == ~env.HF_TOKEN.set \/ Len(env.HF_TOKEN.val) = 0

RequiredFields == {"id", "prd", "buggy_solution_code"}
OptionalStrings == {"label", "qwq_critique"}

\* the required fields of the payload that are missing, empty or no string
Violating(b) == {f \in RequiredFields : b[f].type # "string" \/ b[f].len = 0}

\* the optional string fields that hold something else than a string
IllTyped(b) == {f \in OptionalStrings : b[f].type \notin {"undefined", "string"}}

\* req.json() yielded a value, and it violates the schema
SchemaViolated(i) ==
  \/ req[i].body.kind = "other"
  \/ req[i].body.kind = "object"
     /\ (Violating(req[i].body) # {} \/ IllTyped(req[i].body) # {})

\* the invocation passed the content-type, credential and validation guards
PassedGuards(i) ==
  /\ DeclaresJson(i)
  /\ ~NoCredential
  /\ req[i].body.kind = "object"
  /\ ~SchemaViolated(i)

Is(i, status, error) == response[i].status = status /\ response[i].error = error

IsValidationFailure(i) == Is(i, 400, "Invalid request body")
IsBadContentType(i) == Is(i, 415, "Content-Type must be application/json")
IsMisconfigured(i) == Is(i, 500, "Server misconfigured: HF_TOKEN missing")
IsTimeout(i) == Is(i, 504, "Upstream model request timed out")
IsServerError(i) == Is(i, 500, "Server error")

\* ------------------------------------------------------------------- claims

\* C1 (as stated): a request whose body violates the schema is answered with
\* the validation failure (400, 'Invalid request body'), whatever its content
\* type and whether or not HF_TOKEN is present.
C1_ValidationFirst ==
  \A i \in Procs : Done(i) /\ SchemaViolated(i) => IsValidationFailure(i)

\* C1 (amended): the reported failure is the first applicable one in the
\* order content-type mismatch, missing credential, validation failure; only
\* a request that passes all three is answered with a timeout, another
\* failure or a success.
C1_GuardOrder ==
  \A i \in Procs : Done(i) =>
    IF ~DeclaresJson(i) THEN IsBadContentType(i)
    ELSE IF NoCredential THEN IsMisconfigured(i)
    ELSE IF SchemaViolated(i) THEN IsValidationFailure(i)
    ELSE IsTimeout(i) \/ IsServerError(i) \/ response[i].status = 200

\* C1 witness: a request with all three failures applicable was answered.
C1_Witness ==
  \E i \in Procs :
    Done(i) /\ ~DeclaresJson(i) /\ NoCredential /\ SchemaViolated(i)
    /\ IsBadContentType(i)

\* C2 (as stated): when the model call did not settle on its own and the
\* timeout fired and aborted it, POST returns the timeout failure (504,
\* 'Upstream model request timed out').
C2_TimeoutLaw ==
  \A i \in Procs :
    Done(i) /\ aborted[i] /\ call[i] = "rejected" => IsTimeout(i)

\* C3: a returned invocation that armed its timer has disarmed it exactly
\* once, whatever the outcome of the call, and no returned invocation leaves
\* an armed timer behind; the timer is never disarmed more often than armed.
C3_TimerDisarmedOnce ==
  \A i \in Procs :
    /\ clearCount[i] <= armCount[i]
    /\ armCount[i] <= 1
    /\ pc[i] \in {"done", "crashed"} => clearCount[i] = armCount[i] /\ timer[i] # "armed"

\* C3 witness: an invocation whose call failed returned with its timer
\* armed once and cleared once.
C3_Witness ==
  \E i \in Procs :
    Done(i) /\ call[i] = "rejected" /\ armCount[i] = 1 /\ clearCount[i] = 1
    /\ timer[i] = "cleared"

\* C4 (as stated): whenever HF_TOKEN is absent or empty, every request is
\* answered with the Misconfigured failure (500), and no timer is armed and
\* the model client is not called.
C4_AlwaysMisconfigured ==
  \A i \in Procs :
    NoCredential =>
      /\ calls[i] = 0 /\ armCount[i] = 0
      /\ Done(i) => IsMisconfigured(i)

\* C4 (amended): whenever HF_TOKEN is absent or empty, no timer is armed, the
\* body is not read and the model client is not called, for every request;
\* a request that declares JSON content is answered with the Misconfigured
\* failure (500), any other with the content-type failure (415).
C4_MissingCredentialShortCircuits ==
  \A i \in Procs :
    NoCredential =>
      /\ calls[i] = 0 /\ armCount[i] = 0 /\ call[i] = "none" /\ ~bodyRead[i]
      /\ Done(i) => IF DeclaresJson(i) THEN IsMisconfigured(i) ELSE IsBadContentType(i)

\* C4 witness: with HF_TOKEN empty, a well-formed JSON request was answered
\* with the Misconfigured failure.
C4_Witness ==
  \E i \in Procs :
    /\ env.HF_TOKEN.set /\ NoCredential
    /\ Done(i) /\ DeclaresJson(i) /\ ~SchemaViolated(i) /\ req[i].body.kind = "object"
    /\ IsMisconfigured(i) /\ calls[i] = 0

\* C5: no invocation issues more than one chat-completion call; a returned
\* invocation that passed the content-type, credential and validation guards
\* issued exactly one, and one rejected by a guard issued none.
C5_ExactlyOneCall ==
  \A i \in Procs :
    /\ calls[i] <= 1
    /\ pc[i] \in {"done", "crashed"} => calls[i] = IF PassedGuards(i) THEN 1 ELSE 0

\* C5 witness: an invocation that passed the guards returned after its only
\* call was aborted by the timeout.
C5_Witness ==
  \E i \in Procs :
    Done(i) /\ PassedGuards(i) /\ aborted[i] /\ call[i] = "rejected" /\ calls[i] = 1

C7_AllErrorsCaught ==
  \A i \in Procs :
    /\ pc[i] # "crashed"
    /\ Done(i) =>
         /\ response[i].request_id = requestId[i]
         /\ requestId[i] \in RequestIds
         /\ response[i].status \in {200, 400, 415, 500, 504}
         /\ response[i].ok \/ response[i].error # ""

\* C7 witness: a body that is not parseable JSON was answered with a typed
\* failure carrying the request id.
C7_Witness ==
  \E i \in Procs :
    Done(i) /\ bodyRead[i] /\ req[i].body.kind = "throws"
    /\ req[i].body.err = "SyntaxError"
    /\ IsServerError(i) /\ response[i].request_id = requestId[i]

\* a string is numeric: around white space, a non-empty run of digits
IsNumeric(s) == Trim(s) # <<>> /\ \A k \in 1..Len(Trim(s)) : Trim(s)[k] \in Digits

\* C8 (as stated): the delay the timer is armed with is 45,000 ms whenever
\* CRITIQUE_TIMEOUT_MS is unset or is not numeric, and the configured number
\* otherwise.
C8_TimeoutDefault ==
  \A i \in Procs : armCount[i] > 0 =>
    LET e == env.CRITIQUE_TIMEOUT_MS
    IN  IF ~e.set \/ ~IsNumeric(e.val)
        THEN timeoutMs[i] = Num(45000)
        ELSE timeoutMs[i] = Num(DecimalValue(Trim(e.val)))

\* C9: an invocation whose request does not declare JSON content never
\* reads the body, never arms a timer and never calls the model, and it is
\* answered with the content-type failure (415).
C9_ContentTypeGuardFirst ==
  \A i \in Procs :
    pc[i] # "idle" /\ ~DeclaresJson(i) =>
      /\ ~bodyRead[i] /\ armCount[i] = 0 /\ timer[i] = "none"
      /\ calls[i] = 0 /\ call[i] = "none"
      /\ pc[i] \in {"guard_ct", "done"}
      /\ Done(i) => IsBadContentType(i)

\* C9 witness: a valid payload sent as text/plain, with the credential
\* present, was answered 415.
C9_Witness ==
  \E i \in Procs :
    /\ Done(i) /\ req[i].ct.set /\ ~DeclaresJson(i)
    /\ ~NoCredential /\ req[i].body.kind = "object" /\ ~SchemaViolated(i)
    /\ IsBadContentType(i) /\ ~bodyRead[i]

\* the body was read and validated, and the invocation has returned
Validated(i) == Done(i) /\ bodyRead[i] /\ req[i].body.kind # "throws"

\* the issue list reports field f
Reports(i, f) == \E issue \in response[i].details : issue.path = f

\* C10 (as stated): a payload (a JSON object) whose id, prd and
\* buggy_solution_code are strings of length >= 1 is accepted; any other
\* fails with an issue list holding an entry for every violating field,
\* before any model call.
C10_RequiredFieldsDecide ==
  \A i \in Procs : Validated(i) /\ req[i].body.kind = "object" =>
    IF Violating(req[i].body) = {}
    THEN ~IsValidationFailure(i)
    ELSE /\ IsValidationFailure(i)
         /\ \A f \in Violating(req[i].body) : Reports(i, f)
         /\ calls[i] = 0

\* C10 (amended): a JSON object is accepted exactly when id, prd and
\* buggy_solution_code are strings of length >= 1 and label and qwq_critique
\* are absent or strings; an object that is not accepted fails with an issue
\* list holding an entry for every violating field, required or optional,
\* and for no other; a value that is no object fails with one issue at the
\* root; a validation failure is returned before any model call.
C10_ValidatorIssues ==
  \A i \in Procs : Validated(i) =>
    LET b == req[i].body
    IN  IF b.kind = "object" /\ Violating(b) = {} /\ IllTyped(b) = {}
        THEN ~IsValidationFailure(i) /\ calls[i] = 1
        ELSE /\ IsValidationFailure(i)
             /\ calls[i] = 0 /\ armCount[i] = 0
             /\ IF b.kind = "object"
                THEN {issue.path : issue \in response[i].details}
                       = Violating(b) \cup IllTyped(b)
                ELSE {issue.path : issue \in response[i].details} = {""}

\* C10 witness: a payload with two violating required fields (one missing,
\* one empty) was answered with an issue for each.
C10_Witness ==
  \E i \in Procs :
    /\ Validated(i) /\ req[i].body.kind = "object"
    /\ req[i].body.id.type = "undefined"
    /\ req[i].body.prd = JString(0)
    /\ Violating(req[i].body) = {"id", "prd"}
    /\ IsValidationFailure(i) /\ Reports(i, "id") /\ Reports(i, "prd")

\* the text JSON.stringify makes of the failure_info given to buildPrompt
SerializedFailureInfo ==
  IF promptInput.failure_info.kind = "json"
  THEN Chars("text", promptInput.failure_info.len)
  ELSE NullText

\* a rendered section obeys the truncation law for its field and budget
ObeysTruncationLaw(section, field, budget) ==
  LET dropped == TLen(field) - budget
  IN  /\ TLen(section) = budget + TLen(Marker(dropped))
      /\ TSlice(section, budget) = TSlice(field, budget)
      /\ section # <<>>
      /\ section[Len(section)].kind = "mark"
      /\ section[Len(section)].d = dropped

\* C11 (as stated): for each of prd, buggy_solution_code and the serialized
\* failure_info, whenever the field is longer than its budget, the section
\* rendered into the prompt has length budget + length of the marker, starts
\* with the first budget characters of the field, and its marker states
\* original length - budget dropped characters.
C11_TruncationLaw ==
  promptOut.built =>
    /\ TLen(promptInput.prd) > MAX_PRD_CHARS =>
         ObeysTruncationLaw(promptOut.prd, promptInput.prd, MAX_PRD_CHARS)
    /\ TLen(promptInput.buggy_solution_code) > MAX_CODE_CHARS =>
         ObeysTruncationLaw(promptOut.code, promptInput.buggy_solution_code, MAX_CODE_CHARS)
    /\ TLen(SerializedFailureInfo) > MAX_FAILUREINFO_CHARS =>
         ObeysTruncationLaw(promptOut.failureInfo.text, SerializedFailureInfo,
                            MAX_FAILUREINFO_CHARS)

\* C12 (as stated): the prompt buildPrompt returns is never longer than
\* 60,000 characters.
C12_PromptCap ==
  promptOut.built /\ ~promptOut.prompt.threw =>
    TLen(promptOut.prompt.text) <= MAX_PROMPT_CHARS

\* C15: for every failure_info value, safeStringifyFailureInfo returns the
\* pretty-printed JSON text, cut to its budget with a marker when longer, or
\* the literal text null, and neither it nor buildPrompt throws.
C15_FailureInfoNeverRaises ==
  promptOut.built =>
    LET fi == promptInput.failure_info
        out == promptOut.failureInfo
    IN  /\ ~out.threw
        /\ ~promptOut.prompt.threw
        /\ IF fi.kind = "json" /\ fi.len <= MAX_FAILUREINFO_CHARS
           THEN out.text = Chars("text", fi.len)
           ELSE IF fi.kind = "json"
           THEN /\ TSlice(out.text, MAX_FAILUREINFO_CHARS)
                     = Chars("text", MAX_FAILUREINFO_CHARS)
                /\ out.text[Len(out.text)].kind = "mark"
           ELSE out.text = NullText

\* C15 witness: a failure_info on which JSON.stringify throws, or for which
\* it returns no string, was rendered as the literal null.
C15_Witness ==
  /\ promptOut.built
  /\ promptInput.failure_info.kind \in {"throws", "nostring"}
  /\ promptOut.failureInfo = Value(NullText)
  /\ ~promptOut.prompt.threw

\* C13 (as stated): a payload whose id, prd and buggy_solution_code are
\* non-empty strings and whose qwq_critique is absent or a string is never
\* answered with a validation failure, whatever the shape (absent, null, any
\* JSON value) of failure_info, label and meta.
C13_OptionalFieldsNeverFail ==
  \A i \in Procs :
    /\ Validated(i) /\ req[i].body.kind = "object"
    /\ Violating(req[i].body) = {}
    /\ req[i].body.qwq_critique.type \in {"undefined", "string"}
    => ~IsValidationFailure(i)

\* C13 (amended): a payload whose id, prd and buggy_solution_code are
\* non-empty strings and whose label and qwq_critique are absent or strings
\* is never answered with a validation failure, whatever the shape of
\* failure_info and meta; with a label or qwq_critique of another shape, null
\* included, it is answered with a validation failure that names that field.
C13_AnyShapedFieldsNeverFail ==
  \A i \in Procs :
    Validated(i) /\ req[i].body.kind = "object" /\ Violating(req[i].body) = {} =>
      IF IllTyped(req[i].body) = {}
      THEN ~IsValidationFailure(i) /\ calls[i] = 1
      ELSE /\ IsValidationFailure(i)
           /\ {issue.path : issue \in response[i].details} = IllTyped(req[i].body)

\* C13 witness: a payload with failure_info null and meta a number was
\* accepted and answered 200.
C13_Witness ==
  \E i \in Procs :
    /\ Validated(i) /\ req[i].body.failure_info = JNull /\ req[i].body.meta = JNumber
    /\ req[i].body.label = Absent
    /\ response[i].status = 200

\* the response of invocation i is a success response
IsSuccess(i) == Done(i) /\ response[i].ok

\* header h stands in text t, at some position
Occurs(h, t) ==
  \E at \in 1..Len(t) :
    at + Len(h) - 1 <= Len(t) /\ SubSeq(t, at, at + Len(h) - 1) = h

\* C14: in every success response the text is the text the model returned,
\* and hasAllHeaders is true iff 'Detailed Diagnosis', '[Proposed Fix]' and
\* '<Test_Validation>' all occur in it, in any order and among any other
\* content; it is false when one of them is absent.
C14_HasAllHeaders ==
  \A i \in Procs :
    IsSuccess(i) =>
      /\ response[i].text = completion[i].content
      /\ response[i].hasAllHeaders
           <=> /\ Occurs(DETAILED_DIAGNOSIS, response[i].text)
               /\ Occurs(PROPOSED_FIX, response[i].text)
               /\ Occurs(TEST_VALIDATION, response[i].text)

\* C14 witness: a success response whose text holds the three headers out of
\* order, and whose flag is true.
C14_Witness ==
  \E i \in Procs :
    /\ IsSuccess(i)
    /\ response[i].text = TEST_VALIDATION \o DETAILED_DIAGNOSIS \o PROPOSED_FIX
    /\ response[i].hasAllHeaders

\* the completion of invocation i lacks content
LacksContent(i) == completion[i].kind \in {"no_choices", "no_message", "null_content"}

\* C16: when the call resolved with a completion that has no choices, no
\* message, or null content, the response is a success response (status 200,
\* ok true) with the empty text and hasAllHeaders false.
C16_MissingContentIsEmptyText ==
  \A i \in Procs :
    Done(i) /\ call[i] = "resolved" /\ LacksContent(i) =>
      /\ response[i].status = 200
      /\ response[i].ok
      /\ response[i].text = <<>>
      /\ ~response[i].hasAllHeaders

\* C16 witness: a call resolved without a message was answered.
C16_Witness ==
  \E i \in Procs :
    Done(i) /\ call[i] = "resolved" /\ completion[i].kind = "no_message"

\* everything that belongs to invocation i
Local(i) ==
  <<pc[i], req[i], requestId[i], bodyRead[i], timer[i], timeoutMs[i],
    armCount[i], clearCount[i], aborted[i], call[i], callErr[i], calls[i],
    completion[i], response[i]>>

InFlight(i) == pc[i] # "idle"

\* each response is made of its own invocation's request_id, id, model, text
\* and error
OwnResponse(i) ==
  /\ response[i].request_id = requestId[i]
  /\ IsSuccess(i) =>
       /\ call[i] = "resolved"
       /\ response[i].id = req[i].body.id
       /\ response[i].model = Model(env.HF_MODEL)
       /\ response[i].text = ContentOrEmpty(completion[i])
  /\ response[i].status = 504 => call[i] = "rejected" /\ callErr[i] = "AbortError"

\* a step acts on one invocation; a call is aborted by the firing of its own
\* invocation's timer, and a timer is disarmed by its own invocation's step
OwnStep(i) ==
  /\ \A j \in Procs \ {i} : Local(i)' # Local(i) => Local(j)' = Local(j)
  /\ ~aborted[i] /\ aborted'[i] => timer[i] = "armed" /\ timer'[i] = "fired"
  /\ timer[i] # "cleared" /\ timer'[i] = "cleared" => pc[i] = "await" /\ pc'[i] = "done"

\* C17: invocations in flight together are independent: every step changes
\* the state of one invocation only, the firing of a timer aborts the call of
\* its own invocation only, a timer is disarmed by its own invocation only,
\* invocations in flight hold different request ids, and each response
\* carries its own invocation's request_id, id, model and text.
C17_Independent ==
  /\ [](\A i \in Procs : Done(i) => OwnResponse(i))
  /\ [](\A i, j \in Procs : i # j /\ InFlight(i) /\ InFlight(j) => requestId[i] # requestId[j])
  /\ [][\A i \in Procs : OwnStep(i)]_vars

\* C17 witness: of two invocations answered while both were in flight, one
\* succeeded with its text and its id, the other one timed out.
C17_Witness ==
  \E i, j \in Procs :
    /\ IsSuccess(i) /\ response[i].text = <<"x">> /\ ~aborted[i]
    /\ Done(j) /\ response[j].status = 504 /\ aborted[j]
    /\ response[i].id # req[j].body.id

\* the call of invocation i has settled and the handler has not gone on
Settled(i) == pc[i] = "await" /\ call[i] \in {"resolved", "rejected"}

\* C18: within an invocation the timer is armed before the call begins, the
\* first thing that happens once the call has settled is that the timer is
\* disarmed and the response returned, and the signal fires only while the
\* call is pending: never after it settled and before the response.
C18_TimerBracketsCall ==
  /\ [](\A i \in Procs :
          /\ call[i] # "none" => armCount[i] = 1
          /\ Done(i) /\ calls[i] > 0 => timer[i] = "cleared")
  /\ [][\A i \in Procs :
          /\ calls'[i] > calls[i] => timer[i] = "armed" /\ ~aborted[i]
          /\ Settled(i) /\ Local(i)' # Local(i) =>
               timer'[i] = "cleared" /\ Done(i)' /\ aborted'[i] = aborted[i]
          /\ ~aborted[i] /\ aborted'[i] => pc[i] = "await" /\ call[i] = "pending"]_vars

\* C18 witness: the timer fired while the call was pending, the call was
\* aborted, and the timer was disarmed when the response was returned.
C18_Witness ==
  \E i \in Procs :
    Done(i) /\ call[i] = "rejected" /\ aborted[i] /\ timer[i] = "cleared" /\ armCount[i] = 1

\* C19: a response with status 504 is returned only if the invocation's own
\* timer fired and aborted its model call: no failure before the timer is
\* armed, and no failure of the call without the timer firing, is answered
\* with 504.
C19_TimeoutOnlyWhenTimerFired ==
  \A i \in Procs :
    Done(i) /\ response[i].status = 504 =>
      armCount[i] = 1 /\ aborted[i] /\ calls[i] = 1 /\ call[i] = "rejected"

\* the page shows a critique
CritiqueShown == sample # NoSample /\ critique.set

\* C20: the critique the page shows belongs to the sample it shows: it was
\* computed, or requested, for that sample, whatever the interleaving of a
\* change of the route id with a critique request in flight.
C20_CritiqueOfCurrentSample ==
  CritiqueShown => critique.of = sample.id /\ critique.of = routeId

====
